---- MODULE Spec2Model ----
(***************************************************************************)
(* Model of Matrix_4x4 (src/main.js): a stateless collection of static     *)
(* functions that build and multiply 4x4 matrices stored as 16 numbers.    *)
(*                                                                         *)
(* The library keeps no state of its own, so the state of the model is the *)
(* last call: the function called, its arguments, the caller's matrix      *)
(* objects before and after the call, and the call's outcome (the returned *)
(* matrix or the error thrown).                                            *)
(*                                                                         *)
(* Numbers.  A JavaScript number is modelled as a normalised fraction      *)
(* <<n, d>> with d >= 0: <<1, 0>> is Infinity, <<-1, 0>> is -Infinity and  *)
(* <<0, 0>> is NaN.  `undefined` is the empty tuple.  Arithmetic is exact: *)
(* the rounding of Float32Array and of Math.sin/Math.cos is not modelled,  *)
(* and negative zero is identified with zero.                              *)
(***************************************************************************)
EXTENDS Integers, Sequences, FiniteSets, TLC

VARIABLES op, args, heap0, heap, ret, err

vars == <<op, args, heap0, heap, ret, err>>

---------------------------------------------------------------------------
(* Bounds of the enumerated inputs. *)

\* setOrtogonalProjection: explicit arguments range over 0..MaxOrtho
MaxOrtho == 2
\* setPerspectiveProjection: aspect, near, far range over -1..MaxPersp
MaxPersp == 2
\* setPerspectiveProjection: fov ranges over 90 * (-1..MaxFov) degrees
MaxFov == 2
\* setTranslate, setScale: explicit arguments range over 0..MaxCoord
MaxCoord == 2
\* setRotate: explicit angles range over 90 * (-1..MaxTurn) degrees
MaxTurn == 2
\* setView: eye coordinates range over -1..MaxEye
MaxEye == 1
\* setView: the look direction and the up vector are axis vectors of
\* length 0..MaxLen
MaxLen == 1
\* multiply: at most MaxArgs arguments are passed
MaxArgs == 3

---------------------------------------------------------------------------
(* JavaScript values and arithmetic. *)

undefined == <<>>
NaN == <<0, 0>>
Infinity == <<1, 0>>

\* The single element of a one-element set.  Operators below are strict in
\* their operands, as JavaScript is: The({e(x) : x \in {v}}) evaluates the
\* operand v once and names its value x in e.
The(S) == CHOOSE v \in S : TRUE

Abs(n) == IF n < 0 THEN -n ELSE n
Sgn(n) == IF n < 0 THEN -1 ELSE IF n > 0 THEN 1 ELSE 0

RECURSIVE GCD(_, _)
GCD(a, b) ==
    IF b = 0 THEN a ELSE The({GCD(x, y) : x \in {b}, y \in {a % b}})

\* the fraction n/d in lowest terms with a non-negative denominator
Norm(n, d) ==
    IF d = 0 THEN <<Sgn(n), 0>>
    ELSE LET g == GCD(Abs(n), Abs(d))
         IN  <<(Sgn(d) * n) \div g, Abs(d) \div g>>

\* the number literal k
R(k) == <<k, 1>>

\* ToNumber: undefined converts to NaN
ToNumber(v) == IF v = undefined THEN NaN ELSE v

Neg(a) == The({<<-x[1], x[2]>> : x \in {a}})
Mul(a, b) ==
    The({Norm(x[1] * y[1], x[2] * y[2]) : x \in {a}, y \in {b}})
Add(a, b) ==
    The({IF x[2] = 0 /\ y[2] = 0
         THEN (IF x = y THEN x ELSE NaN)
         ELSE Norm(x[1] * y[2] + y[1] * x[2], x[2] * y[2]) :
         x \in {a}, y \in {b}})
Sub(a, b) == Add(a, Neg(b))
Inv(a) == The({Norm(x[2], x[1]) : x \in {a}})
Div(a, b) == Mul(a, Inv(b))

\* a == b and a <= b on numbers (false when either side is NaN)
Eq(a, b) == a # NaN /\ b # NaN /\ a = b
Le(a, b) ==
    /\ a # NaN
    /\ b # NaN
    /\ IF a[2] = 0 /\ b[2] = 0 THEN a[1] <= b[1]
       ELSE a[1] * b[2] <= b[1] * a[2]

\* truthiness of an argument: undefined, 0 and NaN are falsy
Truthy(v) == v # undefined /\ v # NaN /\ v # R(0)

\* a default parameter value applies when the argument is undefined
Default(v, d) == IF v = undefined THEN d ELSE v

\* new Float32Array([...]) / an array literal of 16 elements, indexed 0..15
Float32Array(s) ==
    The({[k \in 0..15 |-> ToNumber(t[k + 1])] : t \in {s}})

\* new Float32Array(16): sixteen zeros
Zero16 == [k \in 0..15 |-> R(0)]

NoMatrix == <<>>
Returns(m) == [err |-> "none", ret |-> m]
Throws(e) == [err |-> e, ret |-> NoMatrix]

---------------------------------------------------------------------------
(* Matrix_4x4.multiply.  The caller's matrix objects are the sequence      *)
(* objs; the rest parameter `matrix` is a sequence of references into it   *)
(* (the same object may be passed in several positions).  The accumulator  *)
(* `mat` is one more object, at reference Len(objs) + 1.                   *)

\* ToNumber of the rest array in `matrix < 2`: the empty array converts to
\* "" and then to 0; an array of one or more 16-element matrices converts
\* to a string with commas and then to NaN
ArrayToNumber(matrix) == IF Len(matrix) = 0 THEN R(0) ELSE NaN

\* the relational comparison a < b on numbers (false when a is NaN)
Lt(a, b) == Le(a, b) /\ a # b

\* the right-hand side of lines 187-190 for output element i + 4c:
\* left[i]*right[4c] + left[i+4]*right[4c+1] + left[i+8]*right[4c+2]
\*   + left[i+12]*right[4c+3]
EntryTransposed(left, right, i, c) ==
    Add(Add(Add(Mul(left[4 * i], right[4 * c]),
                Mul(left[4 * i + 1], right[4 * c + 1])),
            Mul(left[4 * i + 2], right[4 * c + 2])),
        Mul(left[4 * i + 3], right[4 * c + 3]))

Entry(left, right, i, c) ==
    Add(Add(Add(Mul(left[i], right[4 * c]),
                Mul(left[i + 4], right[4 * c + 1])),
            Mul(left[i + 8], right[4 * c + 2])),
        Mul(left[i + 12], right[4 * c + 3]))

\* one assignment mat[i + 4c] = ... of the loop body; both operands are read
\* from the objects as they are when the assignment runs
Assign(H, matrix, mat, n, i, c) ==
    [H EXCEPT ![mat][i + 4 * c] =
        Entry(H[matrix[n + 1]], H[matrix[n + 2]], i, c)]

\* the loop `for (let i = 0; i < 4; i++)` from its assignment number s on:
\* assignment s is the one of line 187 + s % 4 in iteration i = s \div 4
RECURSIVE Rows(_, _, _, _, _)
Rows(H, matrix, mat, n, s) ==
    IF s < 16
    THEN The({Rows(H1, matrix, mat, n, s + 1) :
              H1 \in {Assign(H, matrix, mat, n, s \div 4, s % 4)}})
    ELSE H

\* the loop `for (let n = 0; n < matrix.length - 1; n++)` from n on: the
\* sixteen assignments, then matrix[n + 1] = mat (a write to the rest
\* array, which is local to the call)
RECURSIVE Fold(_, _, _, _)
Fold(H, matrix, mat, n) ==
    IF n < Len(matrix) - 1
    THEN The({Fold(H1, matrix1, mat, n + 1) :
              H1 \in {Rows(H, matrix, mat, n, 0)},
              matrix1 \in {[matrix EXCEPT ![n + 2] = mat]}})
    ELSE H

\* a variant that accumulates into the first argument's buffer instead of
\* a new one
multiplyIntoFirst(objs, matrix) ==
    IF Lt(ArrayToNumber(matrix), R(2))
    THEN [err |-> "TypeError", ret |-> NoMatrix, heap |-> objs]
    ELSE The({[err |-> "none", ret |-> H[matrix[1]], heap |-> H] :
              H \in {Fold(objs, matrix, matrix[1], 0)}})

\* multiply(...matrix): `throw new console.error(...)` raises a TypeError,
\* console.error being no constructor
multiply(objs, matrix) ==
    IF Lt(ArrayToNumber(matrix), R(2))
    THEN [err |-> "TypeError", ret |-> NoMatrix, heap |-> objs]
    ELSE The({[err |-> "none", ret |-> H[Len(objs) + 1],
               heap |-> SubSeq(H, 1, Len(objs))] :
              H \in {Fold(Append(objs, Zero16), matrix, Len(objs) + 1, 0)}})

\* multiply(a, b) on two distinct matrix objects
multiply2(a, b) == multiply(<<a, b>>, <<1, 2>>).ret

---------------------------------------------------------------------------
(* The constructors. *)

setIdentity ==
    Float32Array(<<R(1), R(0), R(0), R(0),
                   R(0), R(1), R(0), R(0),
                   R(0), R(0), R(1), R(0),
                   R(0), R(0), R(0), R(1)>>)

\* a variant whose default for `near` is 1
setOrtogonalProjectionNear1(left0, right0, top0, bottom0, near0, far0) ==
    LET left == Default(left0, R(-1))
        right == Default(right0, R(1))
        top == Default(top0, R(1))
        bottom == Default(bottom0, R(-1))
        near == Default(near0, R(1))
        far == Default(far0, R(1))
        width == Sub(right, left)
        height == Sub(top, bottom)
        depth == Sub(far, near)
    IN  IF Eq(left, right) \/ Eq(top, bottom) \/ Eq(near, far)
        THEN Throws("The visibility area is zero")
        ELSE Returns(Float32Array(
               <<Div(R(2), width), R(0), R(0), R(0),
                 R(0), Div(R(2), height), R(0), R(0),
                 R(0), R(0), Div(R(-2), depth), R(0),
                 Mul(Neg(Add(right, left)), width),
                 Mul(Neg(Add(top, bottom)), height),
                 Mul(Neg(Add(far, near)), depth), R(1)>>))

setOrtogonalProjection(left0, right0, top0, bottom0, near0, far0) ==
    LET left == Default(left0, R(-1))
        right == Default(right0, R(1))
        top == Default(top0, R(1))
        bottom == Default(bottom0, R(-1))
        near == Default(near0, R(0))
        far == Default(far0, R(1))
        width == Sub(right, left)
        height == Sub(top, bottom)
        depth == Sub(far, near)
    IN  IF Eq(left, right) \/ Eq(top, bottom) \/ Eq(near, far)
        THEN Throws("The visibility area is zero")
        ELSE Returns(Float32Array(
               <<Div(R(2), width), R(0), R(0), R(0),
                 R(0), Div(R(2), height), R(0), R(0),
                 R(0), R(0), Div(R(-2), depth), R(0),
                 Mul(Neg(Add(right, left)), width),
                 Mul(Neg(Add(top, bottom)), height),
                 Mul(Neg(Add(far, near)), depth), R(1)>>))

\* Math.cos(angle) / Math.sin(angle) for angle = PI * fov / 180 / 2, with
\* fov a multiple of 90 degrees (angle a multiple of 45 degrees)
ctgAngle(fov) ==
    LET k == (fov[1] \div 90) % 8
    IN  CASE k = 0 -> Div(R(1), R(0))
          [] k = 4 -> Div(R(-1), R(0))
          [] k \in {1, 5} -> R(1)
          [] k \in {2, 6} -> R(0)
          [] OTHER -> R(-1)

\* a variant that checks the distances before the volume
setPerspectiveProjectionDistanceFirst(fov, aspect0, near0, far0) ==
    LET aspect == Default(aspect0, R(1))
        near == Default(near0, R(1))
        far == Default(far0, R(10))
        depthValue == Div(R(1), Sub(far, near))
    IN  IF Le(near, R(0)) \/ Le(far, R(0))
        THEN Throws("Distance to near or far point is less than zero")
        ELSE IF Le(fov, R(0)) \/ Eq(near, far) \/ Eq(aspect, R(0))
        THEN Throws("The visibility area is zero")
        ELSE Returns(Float32Array(
               <<Div(ctgAngle(fov), aspect), R(0), R(0), R(0),
                 R(0), ctgAngle(fov), R(0), R(0),
                 R(0), R(0), Mul(Neg(Add(far, near)), depthValue), R(-1),
                 R(0), R(0), Mul(Mul(Mul(R(-2), near), far), depthValue),
                 R(0)>>))

\* fov is always passed explicitly: its default reads the global `window`
setPerspectiveProjection(fov, aspect0, near0, far0) ==
    LET aspect == Default(aspect0, R(1))
        near == Default(near0, R(1))
        far == Default(far0, R(10))
        depthValue == Div(R(1), Sub(far, near))
    IN  IF Le(fov, R(0)) \/ Eq(near, far) \/ Eq(aspect, R(0))
        THEN Throws("The visibility area is zero")
        ELSE IF Le(near, R(0)) \/ Le(far, R(0))
        THEN Throws("Distance to near or far point is less than zero")
        ELSE Returns(Float32Array(
               <<Div(ctgAngle(fov), aspect), R(0), R(0), R(0),
                 R(0), ctgAngle(fov), R(0), R(0),
                 R(0), R(0), Mul(Neg(Add(far, near)), depthValue), R(-1),
                 R(0), R(0), Mul(Mul(Mul(R(-2), near), far), depthValue),
                 R(0)>>))

\* the square root of a perfect square
ISqrt(n) == CHOOSE k \in 0..n : k * k = n

\* Math.hypot(x, y, z), for arguments whose squares sum to the square of a
\* fraction: Infinity if an argument is infinite, else NaN if one is NaN
Hypot(x, y, z) ==
    The({IF \E v \in {a, b, c} : v \in {Infinity, Neg(Infinity)}
         THEN Infinity
         ELSE IF NaN \in {a, b, c} THEN NaN
         ELSE The({<<ISqrt(s[1]), ISqrt(s[2])>> :
                   s \in {Add(Add(Mul(a, a), Mul(b, b)), Mul(c, c))}}) :
         a \in {x}, b \in {y}, c \in {z}})

setView(fromX0, fromY0, fromZ0, atX0, atY0, atZ0, upX0, upY0, upZ0) ==
    LET fromX == Default(fromX0, R(0))
        fromY == Default(fromY0, R(0))
        fromZ == Default(fromZ0, R(0))
        atX == Default(atX0, R(0))
        atY == Default(atY0, R(0))
        atZ == Default(atZ0, R(-1))
        upX == Default(upX0, R(0))
        upY == Default(upY0, R(1))
        upZ == Default(upZ0, R(0))
        normalize2 == Div(R(1), Hypot(Sub(atX, fromX), Sub(atY, fromY),
                                      Sub(atZ, fromZ)))
        x2 == Mul(Sub(atX, fromX), normalize2)
        y2 == Mul(Sub(atY, fromY), normalize2)
        z2 == Mul(Sub(atZ, fromZ), normalize2)
        cx0 == Sub(Mul(y2, upZ), Mul(z2, upY))
        cy0 == Sub(Mul(z2, upX), Mul(x2, upZ))
        cz0 == Sub(Mul(x2, upY), Mul(y2, upX))
        normalize0 == Div(R(1), Hypot(cx0, cy0, cz0))
        x0 == Mul(cx0, normalize0)
        y0 == Mul(cy0, normalize0)
        z0 == Mul(cz0, normalize0)
        x1 == Sub(Mul(y0, z2), Mul(z0, y2))
        y1 == Sub(Mul(z0, x2), Mul(x0, z2))
        z1 == Sub(Mul(x0, y2), Mul(y0, x2))
    IN  Float32Array(
          <<x0, x1, Neg(x2), R(0),
            y0, y1, Neg(y2), R(0),
            z0, z1, Neg(z2), R(0),
            Add(Add(Mul(x0, fromX), Mul(y0, fromY)), Mul(z0, fromZ)),
            Add(Add(Mul(x1, fromX), Mul(y1, fromY)), Mul(z1, fromZ)),
            Add(Add(Mul(x2, fromX), Mul(y2, fromY)), Mul(z2, fromZ)),
            R(1)>>)

setTranslate(x, y, z) ==
    Float32Array(<<R(1), R(0), R(0), R(0),
                   R(0), R(1), R(0), R(0),
                   R(0), R(0), R(1), R(0),
                   x, y, z, R(1)>>)

\* Math.sin and Math.cos of PI * a / 180 for a a multiple of 90 degrees
Sin(a) ==
    LET k == (a[1] \div 90) % 4
    IN  IF k = 1 THEN R(1) ELSE IF k = 3 THEN R(-1) ELSE R(0)
Cos(a) ==
    LET k == (a[1] \div 90) % 4
    IN  IF k = 0 THEN R(1) ELSE IF k = 2 THEN R(-1) ELSE R(0)

\* the elementary matrices of lines 130-134, 140-144 and 151-155
RotX(x) ==
    Float32Array(<<R(1), R(0), R(0), R(0),
                   R(0), Cos(x), Sin(x), R(0),
                   R(0), Neg(Sin(x)), Cos(x), R(0),
                   R(0), R(0), R(0), R(1)>>)
RotY(y) ==
    Float32Array(<<Cos(y), R(0), Neg(Sin(y)), R(0),
                   R(0), R(1), R(0), R(0),
                   Sin(y), R(0), Cos(y), R(0),
                   R(0), R(0), R(0), R(1)>>)
RotZ(z) ==
    Float32Array(<<Cos(z), Sin(z), R(0), R(0),
                   Neg(Sin(z)), Cos(z), R(0), R(0),
                   R(0), R(0), R(1), R(0),
                   R(0), R(0), R(0), R(1)>>)

\* a variant that multiplies the new elementary matrix on the left
setRotateReversed(x, y, z) ==
    LET matX == IF Truthy(x) THEN RotX(x) ELSE Zero16
        matY == IF Truthy(y)
                THEN (IF Truthy(x) THEN multiply2(RotY(y), matX)
                      ELSE RotY(y))
                ELSE matX
    IN  IF Truthy(z)
        THEN (IF Truthy(x) \/ Truthy(y) THEN multiply2(RotZ(z), matY)
              ELSE RotZ(z))
        ELSE matY

setRotate(x, y, z) ==
    LET matX == IF Truthy(x) THEN RotX(x) ELSE Zero16
        matY == IF Truthy(y)
                THEN (IF Truthy(x) THEN multiply2(matX, RotY(y))
                      ELSE RotY(y))
                ELSE matX
    IN  IF Truthy(z)
        THEN (IF Truthy(x) \/ Truthy(y) THEN multiply2(matY, RotZ(z))
              ELSE RotZ(z))
        ELSE matY

setScale(x, y, z) ==
    Float32Array(<<x, R(0), R(0), R(0),
                   R(0), y, R(0), R(0),
                   R(0), R(0), z, R(0),
                   R(0), R(0), R(0), R(1)>>)

---------------------------------------------------------------------------
(* The calls a client can make.  Every call is independent of the ones     *)
(* before it: the module has no state of its own.                          *)

\* argument values: undefined or a number of lo..hi
Arg(lo, hi) == {undefined} \cup {R(k) : k \in lo..hi}
\* angles: undefined or a multiple of 90 degrees
Angle(lo, hi) == {undefined} \cup {R(90 * k) : k \in lo..hi}
\* the axis-aligned vectors of length 0..MaxLen
AxisVecs ==
    {<<s * l, 0, 0>> : s \in {-1, 1}, l \in 0..MaxLen}
    \cup {<<0, s * l, 0>> : s \in {-1, 1}, l \in 0..MaxLen}
    \cup {<<0, 0, s * l>> : s \in {-1, 1}, l \in 0..MaxLen}

\* the matrices a client passes to multiply
MulPool ==
    {setIdentity,
     setTranslate(R(1), R(2), R(3)),
     setScale(R(2), R(3), R(2)),
     setRotate(R(90), undefined, undefined),
     setRotate(R(90), R(90), R(0)),
     setTranslate(undefined, R(0), R(0))}

Init ==
    /\ op = "none"
    /\ args = <<>>
    /\ heap0 = <<>>
    /\ heap = <<>>
    /\ ret = NoMatrix
    /\ err = "none"

\* calls are synchronous: a call starts when no other call's outcome is
\* pending
Idle == op = "none"

\* a call of a constructor: no caller-owned matrix is involved
Call(o, a, r) ==
    \E out \in {r} :
        /\ op' = o
        /\ args' = a
        /\ heap0' = <<>>
        /\ heap' = <<>>
        /\ ret' = out.ret
        /\ err' = out.err

CallSetIdentity == Idle /\ Call("setIdentity", <<>>, Returns(setIdentity))

CallSetOrtogonalProjection ==
    /\ Idle
    /\ \E l, r, t, b, n, f \in Arg(0, MaxOrtho) :
        Call("setOrtogonalProjection", <<l, r, t, b, n, f>>,
             setOrtogonalProjection(l, r, t, b, n, f))

CallSetPerspectiveProjection ==
    /\ Idle
    /\ \E fov \in Angle(-1, MaxFov) \ {undefined} :
        \E a, n, f \in Arg(-1, MaxPersp) :
            Call("setPerspectiveProjection", <<fov, a, n, f>>,
                 setPerspectiveProjection(fov, a, n, f))

CallSetView ==
    \/ Idle /\ \E fx, fy, fz \in -1..MaxEye : \E d \in AxisVecs :
         \E u \in {<<R(v[1]), R(v[2]), R(v[3])>> : v \in AxisVecs}
                  \cup {<<undefined, undefined, undefined>>} :
            LET a == <<R(fx), R(fy), R(fz),
                       R(fx + d[1]), R(fy + d[2]), R(fz + d[3]),
                       u[1], u[2], u[3]>>
            IN  Call("setView", a,
                     Returns(setView(a[1], a[2], a[3], a[4], a[5], a[6],
                                     a[7], a[8], a[9])))
    \/ Idle /\ Call("setView", [k \in 1..9 |-> undefined],
            Returns(setView(undefined, undefined, undefined,
                            undefined, undefined, undefined,
                            undefined, undefined, undefined)))

CallSetTranslate ==
    /\ Idle
    /\ \E x, y, z \in Arg(0, MaxCoord) :
        Call("setTranslate", <<x, y, z>>, Returns(setTranslate(x, y, z)))

CallSetRotate ==
    /\ Idle
    /\ \E x, y, z \in Angle(-1, MaxTurn) :
        Call("setRotate", <<x, y, z>>, Returns(setRotate(x, y, z)))

CallSetScale ==
    /\ Idle
    /\ \E x, y, z \in Arg(0, MaxCoord) :
        Call("setScale", <<x, y, z>>, Returns(setScale(x, y, z)))

\* the largest element of a set of naturals (0 for the empty set)
Max(S) == IF S = {} THEN 0 ELSE CHOOSE m \in S : \A v \in S : v <= m

\* the argument lists of n references: the caller's objects are numbered in
\* the order of their first use, so that every aliasing pattern of the
\* arguments occurs once
ArgLists(n) ==
    {m \in [1..n -> 1..n] :
        \A j \in 1..n : m[j] <= 1 + Max({m[q] : q \in 1..(j - 1)})}

\* multiply(...matrix) on the caller's objects objs, passed by reference
CallMultiply ==
    /\ Idle
    /\ \E n \in 0..MaxArgs : \E matrix \in ArgLists(n) :
        \E objs \in [1..Max({matrix[j] : j \in 1..n}) -> MulPool] :
          \E r \in {multiply(objs, matrix)} :
                /\ op' = "multiply"
                /\ args' = matrix
                /\ heap0' = objs
                /\ heap' = r.heap
                /\ ret' = r.ret
                /\ err' = r.err

\* the caller has consumed the outcome of the last call
Discard ==
    /\ op # "none"
    /\ op' = "none"
    /\ args' = <<>>
    /\ heap0' = <<>>
    /\ heap' = <<>>
    /\ ret' = NoMatrix
    /\ err' = "none"

Next ==
    \/ CallSetIdentity
    \/ CallSetOrtogonalProjection
    \/ CallSetPerspectiveProjection
    \/ CallSetView
    \/ CallSetTranslate
    \/ CallSetRotate
    \/ CallSetScale
    \/ CallMultiply
    \/ Discard

Spec == Init /\ [][Next]_vars

---------------------------------------------------------------------------
(* Properties. *)

\* the value is a 16-element matrix
IsMatrix(m) == DOMAIN m = 0..15
\* every element of the matrix is an integer
IsIntMatrix(m) == \A k \in 0..15 : m[k][2] = 1
\* the integer passed as argument v, or d when it is omitted
IntArg(v, d) == IF v = undefined THEN d ELSE v[1]
\* the matrices passed to the last multiply call, in argument order
Passed == [j \in 1..Len(args) |-> heap0[args[j]]]

\* the pairwise product out[i + 4c] = sum over j of left[i + 4j] * right[4c + j]
PairProduct(left, right) ==
    [k \in 0..15 |->
        Add(Add(Add(Mul(left[k % 4], right[4 * (k \div 4)]),
                    Mul(left[(k % 4) + 4], right[4 * (k \div 4) + 1])),
                Mul(left[(k % 4) + 8], right[4 * (k \div 4) + 2])),
            Mul(left[(k % 4) + 12], right[4 * (k \div 4) + 3]))]

\* the left-to-right fold of pairwise products of the matrices ms[1..n]
RECURSIVE LeftFold(_, _)
LeftFold(ms, n) ==
    IF n = 1 THEN ms[1] ELSE PairProduct(LeftFold(ms, n - 1), ms[n])

\* C1: multiply of three or more integer-valued matrices returns the
\* left-to-right fold of their pairwise products, which is also what nested
\* two-argument calls return: multiply(A, B, C) = multiply(multiply(A, B), C).
C1_LeftFold ==
    (/\ op = "multiply"
     /\ Len(args) >= 3
     /\ \A j \in 1..Len(args) : IsIntMatrix(Passed[j]))
    => /\ err = "none"
       /\ ret = LeftFold(Passed, Len(args))
       /\ Len(args) = 3 =>
            ret = multiply2(multiply2(Passed[1], Passed[2]), Passed[3])

\* C2: multiply leaves every element of every matrix passed to it as it was
\* before the call, also when one object is passed in several positions.
C2_InputsUnchanged == op = "multiply" => heap = heap0

\* C2 witness: a call of three arguments, two of them the same object, whose
\* product differs from every argument.
C2_Witness ==
    /\ op = "multiply"
    /\ err = "none"
    /\ Len(args) = 3
    /\ args[1] = args[3]
    /\ args[1] # args[2]
    /\ \A j \in 1..3 : ret # heap0[args[j]]
    /\ heap0[1] # setIdentity

\* C3: multiply with fewer than two matrices fails and returns no matrix; it
\* returns a matrix only when at least two matrices are passed.
C3_AtLeastTwo ==
    op = "multiply" =>
        /\ Len(args) < 2 => err # "none" /\ ~IsMatrix(ret)
        /\ IsMatrix(ret) => Len(args) >= 2

\* C4: identity law of the two-argument multiply: multiply(M, I) = M and
\* multiply(I, M) = M for every integer-valued M.
C4_IdentityLaw ==
    (op = "multiply" /\ Len(args) = 2) =>
        /\ (Passed[2] = setIdentity /\ IsIntMatrix(Passed[1]))
              => ret = Passed[1]
        /\ (Passed[1] = setIdentity /\ IsIntMatrix(Passed[2]))
              => ret = Passed[2]

\* C4 witness: a translation multiplied by the identity on its right.
C4_Witness ==
    /\ op = "multiply"
    /\ Len(args) = 2
    /\ Passed[1] = setTranslate(R(1), R(2), R(3))
    /\ Passed[2] = setIdentity
    /\ ret = Passed[1]

\* C5: every matrix returned by setIdentity, setTranslate, setScale and
\* setRotate has 16 elements, with 0 at indices 3, 7, 11 and 1 at index 15.
C5_AffineLastColumn ==
    op \in {"setIdentity", "setTranslate", "setScale", "setRotate"} =>
        /\ IsMatrix(ret)
        /\ ret[3] = R(0)
        /\ ret[7] = R(0)
        /\ ret[11] = R(0)
        /\ ret[15] = R(1)

\* the elementary matrix of an axis, the identity when its angle is falsy
AxisOrIdentity(angle, m) == IF Truthy(angle) THEN m ELSE setIdentity

\* C6: with at least one non-zero angle, setRotate(x, y, z) is the product
\* Rx(x) . Ry(y) . Rz(z) composed in that order by the two-argument multiply,
\* with the identity in the place of every axis whose angle is zero/omitted.
C6_RotateOrder ==
    (op = "setRotate" /\ \E j \in 1..3 : Truthy(args[j])) =>
        ret = multiply2(multiply2(AxisOrIdentity(args[1], RotX(args[1])),
                                  AxisOrIdentity(args[2], RotY(args[2]))),
                        AxisOrIdentity(args[3], RotZ(args[3])))

\* C6 witness: the Y axis is skipped between two quarter turns.
C6_Witness ==
    /\ op = "setRotate"
    /\ args = <<R(90), R(0), R(90)>>
    /\ ret = multiply2(RotX(R(90)), RotZ(R(90)))
    /\ ret # multiply2(RotZ(R(90)), RotX(R(90)))

\* C7: setPerspectiveProjection with explicit numbers has exactly one
\* outcome: the volume error when fov <= 0 or near = far or aspect = 0 (also
\* when a distance condition holds too); otherwise the distance error when
\* near <= 0 or far <= 0; otherwise, and only then, a matrix.
C7_PerspectiveOutcome ==
    (op = "setPerspectiveProjection" /\ \A j \in 1..4 : args[j] # undefined)
    => LET fov == args[1][1]
           aspect == args[2][1]
           near == args[3][1]
           far == args[4][1]
           volume == fov <= 0 \/ near = far \/ aspect = 0
           distance == near <= 0 \/ far <= 0
       IN  /\ volume => err = "The visibility area is zero"
           /\ (~volume /\ distance) =>
                err = "Distance to near or far point is less than zero"
           /\ IsMatrix(ret) <=> (~volume /\ ~distance)
           /\ IsMatrix(ret) <=> err = "none"

\* C7 witness: near = far = -1, where both conditions hold and the volume
\* error is raised.
C7_Witness ==
    /\ op = "setPerspectiveProjection"
    /\ args = <<R(90), R(1), R(-1), R(-1)>>
    /\ err = "The visibility area is zero"
    /\ ~IsMatrix(ret)

\* C8: the matrix of setOrtogonalProjection maps the clip volume onto the
\* cube [-1, 1]^3: x = left to -1, x = right to 1, y = bottom to -1, y = top
\* to 1, z = -near to -1 and z = -far to 1.
C8_OrthoMapsToCube ==
    (op = "setOrtogonalProjection" /\ err = "none") =>
        LET left == R(IntArg(args[1], -1))
            right == R(IntArg(args[2], 1))
            top == R(IntArg(args[3], 1))
            bottom == R(IntArg(args[4], -1))
            near == R(IntArg(args[5], 0))
            far == R(IntArg(args[6], 1))
        IN  /\ Add(Mul(ret[0], left), ret[12]) = R(-1)
            /\ Add(Mul(ret[0], right), ret[12]) = R(1)
            /\ Add(Mul(ret[5], bottom), ret[13]) = R(-1)
            /\ Add(Mul(ret[5], top), ret[13]) = R(1)
            /\ Add(Mul(ret[10], Neg(near)), ret[14]) = R(-1)
            /\ Add(Mul(ret[10], Neg(far)), ret[14]) = R(1)

\* C9: for a unit axis-aligned look direction and a unit up vector
\* perpendicular to it, the matrix of setView maps the eye point to the
\* origin; for the eye at the origin looking down -Z with +Y up it is the
\* identity.
C9_ViewEyeAtOrigin ==
    op = "setView" =>
        LET from == <<IntArg(args[1], 0), IntArg(args[2], 0),
                      IntArg(args[3], 0)>>
            at == <<IntArg(args[4], 0), IntArg(args[5], 0),
                    IntArg(args[6], -1)>>
            up == <<IntArg(args[7], 0), IntArg(args[8], 1),
                    IntArg(args[9], 0)>>
            dir == [j \in 1..3 |-> at[j] - from[j]]
            Dot(a, b) == a[1] * b[1] + a[2] * b[2] + a[3] * b[3]
        IN  /\ (Dot(dir, dir) = 1 /\ Dot(up, up) = 1 /\ Dot(dir, up) = 0) =>
                \A k \in 0..2 :
                    Add(Add(Add(Mul(R(from[1]), ret[k]),
                                Mul(R(from[2]), ret[4 + k])),
                            Mul(R(from[3]), ret[8 + k])),
                        ret[12 + k]) = R(0)
            /\ (from = <<0, 0, 0>> /\ at = <<0, 0, -1>> /\ up = <<0, 1, 0>>)
                  => ret = setIdentity

\* C10: setOrtogonalProjection fails with the volume error exactly when
\* left = right or top = bottom or near = far, omitted arguments taking the
\* defaults (-1, 1, 1, -1, 0, 1); otherwise it returns a 16-element matrix.
C10_OrthoOutcome ==
    op = "setOrtogonalProjection" =>
        LET left == IntArg(args[1], -1)
            right == IntArg(args[2], 1)
            top == IntArg(args[3], 1)
            bottom == IntArg(args[4], -1)
            near == IntArg(args[5], 0)
            far == IntArg(args[6], 1)
            degenerate == left = right \/ top = bottom \/ near = far
        IN  /\ degenerate <=> err = "The visibility area is zero"
            /\ ~degenerate => (err = "none" /\ IsMatrix(ret))
            /\ degenerate => ~IsMatrix(ret)

\* C10 witness: the call without arguments returns a matrix.
C10_Witness ==
    /\ op = "setOrtogonalProjection"
    /\ \A j \in 1..6 : args[j] = undefined
    /\ err = "none"
    /\ IsMatrix(ret)

====
